---- MODULE Spec2Model ----
(***************************************************************************)
(* Model of the css_colors library (src/src/lib.rs): the two value types   *)
(* RGB and RGBA, their constructors rgb() and rgba(), the conversions      *)
(* to_rgba() and to_rgb(), the rendering to_css() / Display, and the       *)
(* derived Copy, Clone and PartialEq.                                      *)
(*                                                                         *)
(* The library itself holds no state.  The state of the model is that of a *)
(* calling program with three bindings, a, b and c, which builds values,   *)
(* copies them, converts them, renders them and compares them.            *)
(*                                                                         *)
(* Text is modelled as a sequence of one-character strings.  An f32 is     *)
(* modelled as NaN, an infinity, or a signed dyadic rational num / 2^exp.  *)
(***************************************************************************)
EXTENDS Integers, Sequences, FiniteSets

VARIABLES
    val,       \* val[s]: the value bound to s, for s in Slots
    born,      \* the value of a as its constructor returned it
    bsrc,      \* how b was made: "none", "copy", "clone" or "new"
    chain,     \* the conversions that produced c: [from, ops]
    ret,       \* the last call and what it returned
    panicked,  \* TRUE once a call has panicked
    signedZero \* whether the toolchain's Display writes the sign of -0.0

vars == <<val, born, bsrc, chain, ret, panicked, signedZero>>

----------------------------------------------------------------------------
(* Bounds of the model. *)

\* How many of ChanSeq's channel values the constructors are given.
NumChannels == 3

\* How many of AlphaSeq's alpha values the constructors are given.
NumAlphas == 10

\* As NumChannels and NumAlphas, for the program that compares two
\* independently built values.
NumEqChannels == 2

NumEqAlphas == 5

\* The longest run of conversions applied one after the other.
MaxChain == 2

----------------------------------------------------------------------------
(* f32 *)

F32(cls, neg, num, exp) == [cls |-> cls, neg |-> neg, num |-> num, exp |-> exp]

\* A finite f32: num / 2^exp, negated when neg.  num is odd unless exp = 0.
Fin(neg, num, exp) == F32("fin", neg, num, exp)

NaN == F32("nan", FALSE, 0, 0)

Inf(neg) == F32("inf", neg, 0, 0)

\* The literal 1.0 of to_rgba.
ONE == Fin(FALSE, 1, 0)

Pow(b, n) == IF n = 0 THEN 1 ELSE LET p[i \in 0..n] == IF i = 0 THEN 1 ELSE b * p[i - 1] IN p[n]

\* a: f32 has no range: whatever f32 the caller passes is stored.
\* 1.0, 0.5, NaN, 0.0, -0.0, 0.75, 1.5, +inf, -0.25, 0.125, 10.0, -inf,
\* 2.5, 100.0, 0.0625, -1.0
AlphaSeq ==
    << ONE, Fin(FALSE, 1, 1), NaN, Fin(FALSE, 0, 0), Fin(TRUE, 0, 0),
       Fin(FALSE, 3, 2), Fin(FALSE, 3, 1), Inf(FALSE), Fin(TRUE, 1, 2),
       Fin(FALSE, 1, 3), Fin(FALSE, 10, 0), Inf(TRUE), Fin(FALSE, 5, 1),
       Fin(FALSE, 100, 0), Fin(FALSE, 1, 4), Fin(TRUE, 1, 0) >>

\* r, g, b: u8.
U8Max == 255

ChanSeq == << 0, 255, 10, 5, 100, 99, 128, 250, 114, 71 >>

Take(seq, n) == { seq[i] : i \in 1..(IF n < Len(seq) THEN n ELSE Len(seq)) }

U8 == 0..U8Max

Channels == Take(ChanSeq, NumChannels) \cap U8

Alphas == Take(AlphaSeq, NumAlphas)

EqChannels == Take(ChanSeq, NumEqChannels) \cap U8

EqAlphas == Take(AlphaSeq, NumEqAlphas)

\* f32's PartialEq (IEEE 754): NaN equals nothing, itself included, and the
\* two zeros are equal.
F32_eq(x, y) ==
    /\ x.cls # "nan"
    /\ y.cls # "nan"
    /\ \/ x = y
       \/ x.cls = "fin" /\ y.cls = "fin" /\ x.num = 0 /\ y.num = 0

----------------------------------------------------------------------------
(* The value types *)

NoValue == [ty |-> "none"]

RGB(r, g, b) == [ty |-> "RGB", r |-> r, g |-> g, b |-> b]

RGBA(r, g, b, a) == [ty |-> "RGBA", r |-> r, g |-> g, b |-> b, a |-> a]

IsColor(v) == v.ty \in {"RGB", "RGBA"}

\* #[derive(PartialEq)] on RGB: every field, in order.
RGB_eq(x, y) == x.r = y.r /\ x.g = y.g /\ x.b = y.b

\* An equality that compares the three channels alone.
RGBA_eq_truncating(x, y) == x.r = y.r /\ x.g = y.g /\ x.b = y.b

\* #[derive(PartialEq)] on RGBA: every field, a by f32's PartialEq.
RGBA_eq(x, y) == x.r = y.r /\ x.g = y.g /\ x.b = y.b /\ F32_eq(x.a, y.a)

PartialEq(x, y) == IF x.ty = "RGB" THEN RGB_eq(x, y) ELSE RGBA_eq(x, y)

\* #[derive(Clone)]: a field-by-field copy.
Clone(x) ==
    IF x.ty = "RGB" THEN RGB(x.r, x.g, x.b) ELSE RGBA(x.r, x.g, x.b, x.a)

----------------------------------------------------------------------------
(* Constructors and conversions *)

rgb(red, green, blue) == RGB(red, green, blue)

\* A constructor that clamps alpha into [0.0, 1.0].
rgba_clamping(red, green, blue, alpha) ==
    RGBA(red, green, blue,
         IF alpha.cls = "nan" THEN alpha
         ELSE IF alpha.neg THEN Fin(FALSE, 0, 0)
         ELSE IF alpha.cls = "inf" \/ alpha.num > Pow(2, alpha.exp) THEN ONE
         ELSE alpha)

rgba(red, green, blue, alpha) == RGBA(red, green, blue, alpha)

\* A conversion that makes black fully transparent.
RGB_to_rgba_keep_zero(self) ==
    RGBA(self.r, self.g, self.b,
         IF self.r = 0 /\ self.g = 0 /\ self.b = 0 THEN Fin(FALSE, 0, 0) ELSE ONE)

RGB_to_rgba(self) == RGBA(self.r, self.g, self.b, ONE)

\* A conversion that blends the channels with the alpha: nothing is left of
\* them at alpha zero.
RGBA_to_rgb_premultiplied(self) ==
    IF self.a.cls = "fin" /\ self.a.num = 0
    THEN RGB(0, 0, 0)
    ELSE RGB(self.r, self.g, self.b)

\* A conversion that reads the channels in the order b, g, r.
RGBA_to_rgb_bgr(self) == RGB(self.b, self.g, self.r)

RGBA_to_rgb(self) == RGB(self.r, self.g, self.b)

----------------------------------------------------------------------------
(* Rendering *)

Lit_rgb == << "r", "g", "b", "(" >>

Lit_rgba == << "r", "g", "b", "a", "(" >>

Lit_sep == << ",", " " >>

Lit_close == << ")" >>

DigitChars == << "0", "1", "2", "3", "4", "5", "6", "7", "8", "9" >>

DigitChar(d) == DigitChars[d + 1]

RECURSIVE Nat_fmt(_)
\* Display of an unsigned integer: its base-10 digits, most significant
\* first, by repeated division by ten.
Nat_fmt(n) ==
    IF n < 10 THEN << DigitChar(n) >>
    ELSE Nat_fmt(n \div 10) \o << DigitChar(n % 10) >>

\* Display of a u8, the "{}" of a channel.
U8_fmt(n) == Nat_fmt(n)

Zeros(n) == [i \in 1..n |-> "0"]

RECURSIVE StripZeros(_)
\* n without its trailing decimal zeros, and how many there were.
StripZeros(n) ==
    IF n = 0 \/ n % 10 # 0 THEN [n |-> n, z |-> 0]
    ELSE LET s == StripZeros(n \div 10) IN [n |-> s.n, z |-> s.z + 1]

\* The shortest decimal digits of a finite non-zero x that read back as x,
\* and the decimal exponent e with x = 0.d1 d2 ... dk * 10^e.  For num / 2^exp
\* with the few digits AlphaSeq has these are the digits of num * 5^exp.
F32_shortest(x) ==
    LET s == StripZeros(x.num * Pow(5, x.exp))
        d == Nat_fmt(s.n)
    IN  [digits |-> d, e |-> Len(d) + s.z - x.exp]

\* The digits laid out without an exponent and with no fixed number of
\* fraction digits.
DigitsToDecStr(digits, e) ==
    IF e <= 0 THEN << "0", "." >> \o Zeros(0 - e) \o digits
    ELSE IF e < Len(digits)
    THEN SubSeq(digits, 1, e) \o << "." >> \o SubSeq(digits, e + 1, Len(digits))
    ELSE digits \o Zeros(e - Len(digits))

\* The sign Display writes: a minus for a negative value.  Whether negative
\* zero counts as one depends on the toolchain the library is built with:
\* the standard library writes "-0" since Rust 1.53 and wrote "0" before.
F32_sign(x) ==
    IF x.neg /\ (x.cls = "inf" \/ x.num # 0 \/ signedZero)
    THEN << "-" >>
    ELSE << >>

\* Debug formatting, "{:?}": a value with no fraction still gets ".0".
F32_fmt_debug(x) ==
    IF x.cls = "nan" THEN << "N", "a", "N" >>
    ELSE IF x.cls = "inf" THEN F32_sign(x) \o << "i", "n", "f" >>
    ELSE IF x.num = 0 THEN F32_sign(x) \o << "0", ".", "0" >>
    ELSE LET s == F32_shortest(x)
         IN  F32_sign(x) \o DigitsToDecStr(s.digits, s.e)
                \o (IF s.e >= Len(s.digits) THEN << ".", "0" >> ELSE << >>)

\* Display of an f32, the "{}" of alpha.
F32_fmt(x) ==
    IF x.cls = "nan" THEN << "N", "a", "N" >>
    ELSE IF x.cls = "inf" THEN F32_sign(x) \o << "i", "n", "f" >>
    ELSE IF x.num = 0 THEN F32_sign(x) \o << "0" >>
    ELSE LET s == F32_shortest(x)
         IN  F32_sign(x) \o DigitsToDecStr(s.digits, s.e)

FmtOk(s) == [ok |-> TRUE, s |-> s]

FmtErr == [ok |-> FALSE, s |-> << >>]

\* A Display that separates the channels by a comma alone.
RGB_fmt_no_space(self) ==
    FmtOk(Lit_rgb \o U8_fmt(self.r) \o << "," >> \o U8_fmt(self.g)
            \o << "," >> \o U8_fmt(self.b) \o Lit_close)

\* impl fmt::Display for RGB.  Writing into a String cannot fail.
RGB_fmt(self) ==
    FmtOk(Lit_rgb \o U8_fmt(self.r) \o Lit_sep \o U8_fmt(self.g)
            \o Lit_sep \o U8_fmt(self.b) \o Lit_close)

\* A Display that refuses an alpha outside [0.0, 1.0].
RGBA_fmt_validating(self) ==
    IF \/ self.a.cls # "fin"
       \/ self.a.neg /\ self.a.num # 0
       \/ self.a.num > Pow(2, self.a.exp)
    THEN FmtErr
    ELSE FmtOk(Lit_rgba \o U8_fmt(self.r) \o Lit_sep \o U8_fmt(self.g)
                 \o Lit_sep \o U8_fmt(self.b) \o Lit_sep \o F32_fmt(self.a)
                 \o Lit_close)

\* impl fmt::Display for RGBA.
RGBA_fmt(self) ==
    FmtOk(Lit_rgba \o U8_fmt(self.r) \o Lit_sep \o U8_fmt(self.g)
            \o Lit_sep \o U8_fmt(self.b) \o Lit_sep \o F32_fmt(self.a)
            \o Lit_close)

Display_fmt(self) == IF self.ty = "RGB" THEN RGB_fmt(self) ELSE RGBA_fmt(self)

\* ToString::to_string: the text Display writes; it panics when Display
\* returns an error.
ToString(self) ==
    LET f == Display_fmt(self)
    IN  [panic |-> ~f.ok, s |-> f.s]

\* RGB::to_css and RGBA::to_css.
to_css(self) == ToString(self)

----------------------------------------------------------------------------
(* The calling program *)

Slots == {"a", "b", "c"}

NoChain == [from |-> NoValue, ops |-> << >>]

Init ==
    /\ val = [s \in Slots |-> NoValue]
    /\ born = NoValue
    /\ bsrc = "none"
    /\ chain = NoChain
    /\ ret = [op |-> "none"]
    /\ panicked = FALSE
    /\ signedZero \in BOOLEAN

\* let a = rgb(red, green, blue);
Rgb(C) ==
    /\ ~panicked
    /\ val["a"] = NoValue
    /\ \E red \in C, green \in C, blue \in C :
         LET v == rgb(red, green, blue)
         IN  /\ val' = [s \in Slots |-> IF s = "a" THEN v ELSE NoValue]
             /\ born' = v
             /\ ret' = [op |-> "rgb", slot |-> "a",
                        args |-> << red, green, blue >>, out |-> v]
    /\ bsrc' = "none"
    /\ chain' = NoChain
    /\ UNCHANGED << panicked, signedZero >>

\* let a = rgba(red, green, blue, alpha);
Rgba(C, A) ==
    /\ ~panicked
    /\ val["a"] = NoValue
    /\ \E red \in C, green \in C, blue \in C, alpha \in A :
         LET v == rgba(red, green, blue, alpha)
         IN  /\ val' = [s \in Slots |-> IF s = "a" THEN v ELSE NoValue]
             /\ born' = v
             /\ ret' = [op |-> "rgba", slot |-> "a",
                        args |-> << red, green, blue, alpha >>, out |-> v]
    /\ bsrc' = "none"
    /\ chain' = NoChain
    /\ UNCHANGED << panicked, signedZero >>

\* let b = rgb(red, green, blue);  a second value, built on its own.
RgbOther(C) ==
    /\ ~panicked
    /\ IsColor(val["a"])
    /\ val["b"] = NoValue
    /\ \E red \in C, green \in C, blue \in C :
         LET v == rgb(red, green, blue)
         IN  /\ val' = [val EXCEPT !["b"] = v]
             /\ ret' = [op |-> "rgb", slot |-> "b",
                        args |-> << red, green, blue >>, out |-> v]
    /\ bsrc' = "new"
    /\ UNCHANGED << born, chain, panicked, signedZero >>

\* let b = rgba(red, green, blue, alpha);
RgbaOther(C, A) ==
    /\ ~panicked
    /\ IsColor(val["a"])
    /\ val["b"] = NoValue
    /\ \E red \in C, green \in C, blue \in C, alpha \in A :
         LET v == rgba(red, green, blue, alpha)
         IN  /\ val' = [val EXCEPT !["b"] = v]
             /\ ret' = [op |-> "rgba", slot |-> "b",
                        args |-> << red, green, blue, alpha >>, out |-> v]
    /\ bsrc' = "new"
    /\ UNCHANGED << born, chain, panicked, signedZero >>

\* let b = a;  #[derive(Copy)]: b gets the fields, a stays as it is.
Copy ==
    /\ ~panicked
    /\ IsColor(val["a"])
    /\ val' = [val EXCEPT !["b"] = val["a"]]
    /\ bsrc' = "copy"
    /\ ret' = [op |-> "copy", slot |-> "a", of |-> val["a"], out |-> val["a"]]
    /\ UNCHANGED << born, chain, panicked, signedZero >>

\* let b = a.clone();
CloneA ==
    /\ ~panicked
    /\ IsColor(val["a"])
    /\ val' = [val EXCEPT !["b"] = Clone(val["a"])]
    /\ bsrc' = "clone"
    /\ ret' = [op |-> "clone", slot |-> "a", of |-> val["a"],
               out |-> Clone(val["a"])]
    /\ UNCHANGED << born, chain, panicked, signedZero >>

\* s.to_css()
ToCss(s) ==
    /\ ~panicked
    /\ IsColor(val[s])
    /\ LET t == to_css(val[s])
       IN  /\ ret' = [op |-> "to_css", slot |-> s, of |-> val[s], out |-> t.s]
           /\ panicked' = t.panic
    /\ UNCHANGED << val, born, bsrc, chain, signedZero >>

\* s.to_string(), format!("{}", s)
ToStr(s) ==
    /\ ~panicked
    /\ IsColor(val[s])
    /\ LET t == ToString(val[s])
       IN  /\ ret' = [op |-> "to_string", slot |-> s, of |-> val[s], out |-> t.s]
           /\ panicked' = t.panic
    /\ UNCHANGED << val, born, bsrc, chain, signedZero >>

ChainAfter(s, op) ==
    IF s = "c" THEN [chain EXCEPT !.ops = Append(@, op)]
    ELSE [from |-> val[s], ops |-> << op >>]

\* A to_rgba(&mut self) that also sets the receiver's channels to zero.
ToRgba_mutating(s) ==
    /\ ~panicked
    /\ val[s].ty = "RGB"
    /\ s = "c" => Len(chain.ops) < MaxChain
    /\ val' = [[val EXCEPT ![s] = RGB(0, 0, 0)]
                  EXCEPT !["c"] = RGB_to_rgba(val[s])]
    /\ chain' = ChainAfter(s, "to_rgba")
    /\ ret' = [op |-> "to_rgba", slot |-> s, of |-> val[s],
               out |-> RGB_to_rgba(val[s])]
    /\ UNCHANGED << born, bsrc, panicked, signedZero >>

\* let c = s.to_rgba();  &self: the receiver is only read.
ToRgba(s) ==
    /\ ~panicked
    /\ val[s].ty = "RGB"
    /\ s = "c" => Len(chain.ops) < MaxChain
    /\ val' = [val EXCEPT !["c"] = RGB_to_rgba(val[s])]
    /\ chain' = ChainAfter(s, "to_rgba")
    /\ ret' = [op |-> "to_rgba", slot |-> s, of |-> val[s],
               out |-> RGB_to_rgba(val[s])]
    /\ UNCHANGED << born, bsrc, panicked, signedZero >>

\* let c = s.to_rgb();
ToRgb(s) ==
    /\ ~panicked
    /\ val[s].ty = "RGBA"
    /\ s = "c" => Len(chain.ops) < MaxChain
    /\ val' = [val EXCEPT !["c"] = RGBA_to_rgb(val[s])]
    /\ chain' = ChainAfter(s, "to_rgb")
    /\ ret' = [op |-> "to_rgb", slot |-> s, of |-> val[s],
               out |-> RGBA_to_rgb(val[s])]
    /\ UNCHANGED << born, bsrc, panicked, signedZero >>

\* l == r, between two values of one type.
Eq(l, r) ==
    /\ ~panicked
    /\ IsColor(val[l])
    /\ val[l].ty = val[r].ty
    /\ ret' = [op |-> "eq", l |-> l, r |-> r, lv |-> val[l], rv |-> val[r],
               out |-> PartialEq(val[l], val[r])]
    /\ UNCHANGED << val, born, bsrc, chain, panicked, signedZero >>

\* A program that builds a value and copies, converts, renders and compares it.
Next ==
    \/ Rgb(Channels)
    \/ Rgba(Channels, Alphas)
    \/ Copy
    \/ CloneA
    \/ \E s \in Slots : ToCss(s)
    \/ \E s \in Slots : ToStr(s)
    \/ \E s \in Slots : ToRgba(s)
    \/ \E s \in Slots : ToRgb(s)
    \/ \E l \in Slots, r \in Slots : Eq(l, r)

Spec == Init /\ [][Next]_vars

\* A program that builds two values and compares them.
NextEq ==
    \/ Rgb(EqChannels)
    \/ Rgba(EqChannels, EqAlphas)
    \/ RgbOther(EqChannels)
    \/ RgbaOther(EqChannels, EqAlphas)
    \/ \E l \in {"a", "b"}, r \in {"a", "b"} : Eq(l, r)

SpecEq == Init /\ [][NextEq]_vars

----------------------------------------------------------------------------
(* Reading a rendered text back.  These definitions state what the claims  *)
(* say of a text; the rendering above does not use them.                   *)

IsDigit(ch) == \E d \in 0..9 : DigitChars[d + 1] = ch

DigitVal(ch) == CHOOSE d \in 0..9 : DigitChars[d + 1] = ch

\* The number a sequence of digits denotes.
DigitsValue(ds) ==
    LET v[i \in 0..Len(ds)] ==
            IF i = 0 THEN 0 ELSE 10 * v[i - 1] + DigitVal(ds[i])
    IN  v[Len(ds)]

\* Unsigned base-10 digits with no leading zero.
IsCanonicalNat(ds) ==
    /\ Len(ds) >= 1
    /\ \A i \in 1..Len(ds) : IsDigit(ds[i])
    /\ Len(ds) > 1 => ds[1] # "0"

RECURSIVE SplitRec(_, _, _)
SplitRec(s, i, cur) ==
    IF i > Len(s) THEN << cur >>
    ELSE IF s[i] = "," /\ i < Len(s) /\ s[i + 1] = " "
    THEN << cur >> \o SplitRec(s, i + 2, << >>)
    ELSE SplitRec(s, i + 1, Append(cur, s[i]))

\* The fields of s, which a comma and a space separate.
SplitFields(s) == SplitRec(s, 1, << >>)

\* The fields of the text open f1, f2, ... ) and << >> for any other text.
FieldsOf(text, open) ==
    IF /\ Len(text) > Len(open)
       /\ SubSeq(text, 1, Len(open)) = open
       /\ text[Len(text)] = ")"
    THEN SplitFields(SubSeq(text, Len(open) + 1, Len(text) - 1))
    ELSE << >>

\* ds is the text of the channel value n.
IsChannelText(ds, n) == IsCanonicalNat(ds) /\ DigitsValue(ds) = n

\* s is a decimal numeral in its minimal form that denotes exactly the
\* finite x: an optional minus sign, an integer part with no leading zero, and
\* a fraction only when there is one, with no trailing zero.  Negative zero
\* may be written with its sign or without.
IsMinimalDecimal(s, x) ==
    LET neg == Len(s) > 0 /\ s[1] = "-"
        u == IF neg THEN Tail(s) ELSE s
        dots == { i \in 1..Len(u) : u[i] = "." }
        ip == IF dots = {} THEN u
              ELSE SubSeq(u, 1, (CHOOSE i \in dots : TRUE) - 1)
        fp == IF dots = {} THEN << >>
              ELSE SubSeq(u, (CHOOSE i \in dots : TRUE) + 1, Len(u))
    IN  /\ Cardinality(dots) <= 1
        /\ IsCanonicalNat(ip)
        /\ \A i \in 1..Len(fp) : IsDigit(fp[i])
        /\ dots # {} => Len(fp) >= 1 /\ fp[Len(fp)] # "0"
        /\ IF x.num = 0 THEN neg => x.neg ELSE neg = x.neg
        /\ DigitsValue(ip \o fp) * Pow(2, x.exp) = x.num * Pow(10, Len(fp))

\* s is the text of the alpha value x.
IsAlphaText(s, x) ==
    IF x.cls = "nan" THEN s = << "N", "a", "N" >>
    ELSE IF x.cls = "inf"
    THEN s = (IF x.neg THEN << "-" >> ELSE << >>) \o << "i", "n", "f" >>
    ELSE IsMinimalDecimal(s, x)

Rendered == ret.op \in {"to_css", "to_string"}

----------------------------------------------------------------------------
(* The claims *)

\* C1: rendering an opaque color, by to_css or by Display / to_string, gives
\* the text "rgb(R, G, B)": the prefix, the three channels in the order r, g,
\* b as unsigned base-10 digits with no leading zeros, a comma and a space
\* between them, no alpha, and the closing parenthesis.
C1_RgbText ==
    (Rendered /\ ret.of.ty = "RGB") =>
        LET f == FieldsOf(ret.out, << "r", "g", "b", "(" >>)
        IN  /\ Len(f) = 3
            /\ IsChannelText(f[1], ret.of.r)
            /\ IsChannelText(f[2], ret.of.g)
            /\ IsChannelText(f[3], ret.of.b)

C1_Witness ==
    /\ ret.op = "to_css"
    /\ ret.of = RGB(255, 10, 0)
    /\ ret.out = << "r", "g", "b", "(", "2", "5", "5", ",", " ", "1", "0",
                    ",", " ", "0", ")" >>

\* C2: rendering a translucent color, by to_css or by Display / to_string,
\* gives the text "rgba(R, G, B, A)": the three channels as in C1 and then
\* alpha as its minimal decimal text, "1" for 1.0 and "0.75" for 0.75, with
\* no fixed number of decimal places.
C2_RgbaText ==
    (Rendered /\ ret.of.ty = "RGBA") =>
        LET f == FieldsOf(ret.out, << "r", "g", "b", "a", "(" >>)
        IN  /\ Len(f) = 4
            /\ IsChannelText(f[1], ret.of.r)
            /\ IsChannelText(f[2], ret.of.g)
            /\ IsChannelText(f[3], ret.of.b)
            /\ IsAlphaText(f[4], ret.of.a)
            /\ ret.of.a = ONE => f[4] = << "1" >>

C2_Witness ==
    /\ ret.op = "to_string"
    /\ ret.of = RGBA(10, 0, 255, Fin(FALSE, 3, 2))
    /\ ret.out = << "r", "g", "b", "a", "(", "1", "0", ",", " ", "0", ",", " ",
                    "2", "5", "5", ",", " ", "0", ".", "7", "5", ")" >>

IsNaN(x) == x.cls = "nan"

\* Every field of x is the same as that field of y, alpha read as a number
\* (IEEE 754 equality: the two zeros are one number, NaN is none).
SameFields(x, y) ==
    /\ x.r = y.r
    /\ x.g = y.g
    /\ x.b = y.b
    /\ x.ty = "RGBA" => F32_eq(x.a, y.a)

\* C3: an opaque color converted to a translucent one and back,
\* c.to_rgba().to_rgb(), is the color it started as.
C3_RoundTrip ==
    chain.ops = << "to_rgba", "to_rgb" >> =>
        /\ chain.from.ty = "RGB"
        /\ val["c"] = chain.from
        /\ RGB_eq(val["c"], chain.from)

C3_Witness ==
    /\ chain.ops = << "to_rgba", "to_rgb" >>
    /\ chain.from = RGB(255, 10, 0)
    /\ val["c"] = RGB(255, 10, 0)

\* C4: to_rgba gives a translucent color with the receiver's r, g and b and
\* an alpha of exactly 1.0, whatever the channels are; it equals
\* rgba(r, g, b, 1.0).
C4_ToRgba ==
    ret.op = "to_rgba" =>
        /\ ret.out.ty = "RGBA"
        /\ ret.out.r = ret.of.r
        /\ ret.out.g = ret.of.g
        /\ ret.out.b = ret.of.b
        /\ ret.out.a = Fin(FALSE, 1, 0)
        /\ RGBA_eq(ret.out, rgba(ret.of.r, ret.of.g, ret.of.b, Fin(FALSE, 1, 0)))
        /\ val["c"] = ret.out

C4_Witness ==
    /\ ret.op = "to_rgba"
    /\ ret.of = RGB(0, 0, 0)
    /\ ret.out = RGBA(0, 0, 0, Fin(FALSE, 1, 0))

\* C5: to_rgb gives an opaque color with the receiver's r, g and b, never
\* fails, and does not look at alpha: the receiver with any other alpha, in
\* or out of [0.0, 1.0], gives the same color.
C5_ToRgb ==
    ret.op = "to_rgb" =>
        /\ ret.out = [ty |-> "RGB", r |-> ret.of.r, g |-> ret.of.g, b |-> ret.of.b]
        /\ val["c"] = ret.out
        /\ ~panicked
        /\ \A alpha \in Alphas :
             RGB_eq(RGBA_to_rgb([ret.of EXCEPT !.a = alpha]), ret.out)

C5_Witness ==
    /\ ret.op = "to_rgb"
    /\ ret.of = RGBA(255, 10, 0, Fin(FALSE, 3, 1))
    /\ ret.out = RGB(255, 10, 0)

\* C6, as the specification states it: == on both types is reflexive for
\* every value, symmetric, and true exactly when every field is equal.
C6_Original ==
    ret.op = "eq" =>
        /\ ret.l = ret.r => ret.out
        /\ ret.out = PartialEq(ret.rv, ret.lv)
        /\ ret.out <=> SameFields(ret.lv, ret.rv)

\* C6, amended: == on both types is symmetric and true exactly when every
\* field is equal, alpha by floating-point equality with no tolerance.  It is
\* reflexive for every RGB and for every RGBA whose alpha is not NaN; an RGBA
\* whose alpha is NaN is not equal to itself.
C6_Equality ==
    ret.op = "eq" =>
        /\ ret.l = ret.r =>
             (ret.out <=> ~(ret.lv.ty = "RGBA" /\ IsNaN(ret.lv.a)))
        /\ ret.out = PartialEq(ret.rv, ret.lv)
        /\ ret.out <=> SameFields(ret.lv, ret.rv)

C6_Witness ==
    /\ ret.op = "eq"
    /\ ret.l = "a"
    /\ ret.r = "a"
    /\ ret.lv = RGBA(0, 255, 0, NaN)
    /\ ret.out = FALSE

\* C7: the constructors store their arguments as given: rgb(red, green, blue)
\* is RGB {r: red, g: green, b: blue} and rgba(red, green, blue, alpha) is
\* RGBA {r: red, g: green, b: blue, a: alpha}, alpha unchanged whether or not
\* it lies in [0.0, 1.0].
C7_Constructors ==
    /\ ret.op = "rgb" =>
         /\ ret.out = [ty |-> "RGB", r |-> ret.args[1], g |-> ret.args[2],
                       b |-> ret.args[3]]
         /\ val[ret.slot] = ret.out
    /\ ret.op = "rgba" =>
         /\ ret.out = [ty |-> "RGBA", r |-> ret.args[1], g |-> ret.args[2],
                       b |-> ret.args[3], a |-> ret.args[4]]
         /\ val[ret.slot] = ret.out

C7_Witness ==
    /\ ret.op = "rgba"
    /\ ret.args = << 255, 10, 0, Fin(FALSE, 3, 1) >>
    /\ val["a"].a = Fin(FALSE, 3, 1)

\* C8: no call fails: rgb, rgba, to_css, to_string, to_rgba and to_rgb each
\* return a value of their type for every input, whatever alpha is, and the
\* program never panics.
C8_Total ==
    /\ ~panicked
    /\ ret.op \in {"rgb", "to_rgb"} => ret.out.ty = "RGB"
    /\ ret.op \in {"rgba", "to_rgba"} => ret.out.ty = "RGBA"
    /\ Rendered => Len(ret.out) > 0

C8_Witness ==
    /\ ret.op = "to_css"
    /\ ret.of.ty = "RGBA"
    /\ ret.of.a = Inf(FALSE)
    /\ Len(ret.out) > 0
    /\ ~panicked

CopyOrClone == bsrc \in {"copy", "clone"}

ComparesCopy ==
    /\ ret.op = "eq"
    /\ CopyOrClone
    /\ << ret.l, ret.r >> \in {<< "a", "b" >>, << "b", "a" >>}

\* No call changes a value it is made on: a is as its constructor returned
\* it, still there after it was copied, and a copy or clone of a has a's
\* fields whatever was called on a, on the copy or on a conversion since.
Unmutated ==
    /\ val["a"] # NoValue => val["a"] = born
    /\ CopyOrClone => val["b"] = born

\* C9, as the specification states it: values are never changed in place,
\* and every copy or clone compares equal to the original.
C9_Original ==
    /\ Unmutated
    /\ ComparesCopy => ret.out

\* C9, amended: values are never changed in place, the original stays usable
\* after it was copied, and a copy or clone has the original's fields and is
\* independent of it.  The copy compares equal to the original unless the
\* value is an RGBA whose alpha is NaN, which compares unequal to its copy.
C9_Immutable ==
    /\ Unmutated
    /\ ComparesCopy => (ret.out <=> ~(born.ty = "RGBA" /\ IsNaN(born.a)))

C9_Witness ==
    /\ ComparesCopy
    /\ bsrc = "clone"
    /\ born = RGBA(255, 10, 0, NaN)
    /\ val["a"] = born
    /\ val["b"] = born
    /\ val["c"] = RGB(255, 10, 0)
    /\ ret.out = FALSE

\* C10: a translucent color converted to an opaque one and back,
\* t.to_rgb().to_rgba(), keeps t's r, g and b and has alpha 1.0: it equals t
\* exactly when t's alpha is 1.0.
C10_OneWay ==
    chain.ops = << "to_rgb", "to_rgba" >> =>
        /\ chain.from.ty = "RGBA"
        /\ val["c"].r = chain.from.r
        /\ val["c"].g = chain.from.g
        /\ val["c"].b = chain.from.b
        /\ val["c"].a = Fin(FALSE, 1, 0)
        /\ RGBA_eq(val["c"], chain.from) <=> chain.from.a = Fin(FALSE, 1, 0)

C10_Witness ==
    /\ chain.ops = << "to_rgb", "to_rgba" >>
    /\ chain.from = RGBA(0, 0, 0, Fin(FALSE, 1, 1))
    /\ val["c"] = RGBA(0, 0, 0, Fin(FALSE, 1, 0))
    /\ ~RGBA_eq(val["c"], chain.from)

====
